---- MODULE Spec2Model ----
(***************************************************************************)
(* Model of extract_single_frame_from_video.py: a command-line tool that   *)
(* derives an output path, probes a video with ffprobe, converts a frame   *)
(* index into an HH:MM:SS.ss seek timestamp and runs ffmpeg.               *)
(*                                                                         *)
(* Text (paths, timestamps, the r_frame_rate field) is a sequence of       *)
(* one-character strings.  os.path is posixpath.  Python floats are exact  *)
(* rationals P/Q; the only place where the binary representation is       *)
(* allowed to show is an exact tie of the two-decimal rounding, which is   *)
(* resolved either way.  `output_path is ""` is the identity test CPython   *)
(* answers like equality, the empty string being a singleton there.        *)
(***************************************************************************)
EXTENDS Integers, Sequences, FiniteSets, TLC

VARIABLES
    entry,                    \* "main": run from the command line; "call": the function called directly
    pc,                       \* position of the program
    args,                     \* argparse namespace of main (input, output, frame, overwrite, doctest)
    video_path,               \* parameter of extract_single_frame_from_video
    frame,                    \* parameter
    output_path,              \* parameter, then the resolved output path
    overwrite_existing_files, \* parameter
    media,                    \* the streams of the file at video_path, as ffprobe would report them
    fs,                       \* file system: set of <<path, content>>
    replaced,                 \* paths whose existing file ffmpeg has replaced
    probe,                    \* the ffprobe child process: [state, code, stdout]
    ffmpeg,                   \* the ffmpeg child process: [state, code]
    spawned,                  \* names of the external tools spawned so far, in order
    video_probe_result,       \* parsed ffprobe document
    video_frame_rate,         \* r_frame_rate text of the selected stream
    frame_rate,               \* <<num, den>>: the float num / den
    time_of_frame,            \* <<P, Q>>: the float P / Q, in seconds
    hours,                    \* whole hours of time_of_frame
    minutes,                  \* whole minutes of the remainder
    seconds,                  \* numerator over Q of the remaining seconds
    time_to_seek,             \* formatted timestamp
    ffmpeg_cmd,               \* argument vector of ffmpeg
    checks,                   \* checks performed so far, in order
    error                     \* exception that ended the program, or "none"

vars == <<entry, pc, args, video_path, frame, output_path, overwrite_existing_files,
          media, fs, replaced, probe, ffmpeg, spawned, video_probe_result,
          video_frame_rate, frame_rate, time_of_frame, hours, minutes, seconds,
          time_to_seek, ffmpeg_cmd, checks, error>>

\* the locals of lines 71-74
timeVars == <<time_of_frame, hours, minutes, seconds, time_to_seek>>

(***************************************************************************)
(* Bounds of the explored inputs.                                          *)
(***************************************************************************)
MaxPathLen == 4
MaxFrame == 8
MaxNum == 8
MaxDen == 3

(***************************************************************************)
(* Text helpers.                                                           *)
(***************************************************************************)
Digits == <<"0", "1", "2", "3", "4", "5", "6", "7", "8", "9">>

RECURSIVE NatToStr(_)
NatToStr(n) == IF n < 10 THEN <<Digits[n + 1]>>
               ELSE NatToStr(n \div 10) \o <<Digits[(n % 10) + 1]>>

\* str(int), as "{}".format(int(x)) prints it
IntToStr(i) == IF i < 0 THEN <<"-">> \o NatToStr(-i) ELSE NatToStr(i)

\* "{:c>w}": right-align s in a field of width w filled with c
RECURSIVE PadLeft(_, _, _)
PadLeft(s, w, c) == IF Len(s) >= w THEN s ELSE PadLeft(<<c>> \o s, w, c)

DigitValue(c) == CHOOSE d \in 0..9 : Digits[d + 1] = c

\* float(text) of a run of decimal digits
RECURSIVE ParseNat(_)
ParseNat(s) == IF Len(s) = 0 THEN 0
               ELSE 10 * ParseNat(SubSeq(s, 1, Len(s) - 1)) + DigitValue(s[Len(s)])

\* index of the first c in s, or Len(s) + 1
FirstIndex(s, c) == IF \E i \in 1..Len(s) : s[i] = c
                    THEN CHOOSE i \in 1..Len(s) : s[i] = c /\ \A j \in 1..(i - 1) : s[j] # c
                    ELSE Len(s) + 1

\* index of the last c in s, or 0  (str.rfind(c) + 1)
LastIndex(s, c) == IF \E i \in 1..Len(s) : s[i] = c
                   THEN CHOOSE i \in 1..Len(s) : s[i] = c /\ \A j \in (i + 1)..Len(s) : s[j] # c
                   ELSE 0

\* s.split(c)[0]
SplitFirst(s, c) == SubSeq(s, 1, FirstIndex(s, c) - 1)

\* s.split(c)[1]: the text between the first and the second c
SplitSecond(s, c) == SplitFirst(SubSeq(s, FirstIndex(s, c) + 1, Len(s)), c)

EndsWith(s, t) == Len(s) >= Len(t) /\ SubSeq(s, Len(s) - Len(t) + 1, Len(s)) = t

\* s.rstrip(c)
RECURSIVE RStrip(_, _)
RStrip(s, c) == IF Len(s) > 0 /\ s[Len(s)] = c THEN RStrip(SubSeq(s, 1, Len(s) - 1), c) ELSE s

(***************************************************************************)
(* posixpath                                                               *)
(***************************************************************************)
basename(p) == SubSeq(p, LastIndex(p, "/") + 1, Len(p))

dirname(p) == LET head == SubSeq(p, 1, LastIndex(p, "/"))
              IN  IF Len(head) > 0 /\ \E i \in 1..Len(head) : head[i] # "/"
                  THEN RStrip(head, "/") ELSE head

join(a, b) == IF Len(b) > 0 /\ b[1] = "/" THEN b
              ELSE IF Len(a) = 0 \/ a[Len(a)] = "/" THEN a \o b
              ELSE a \o <<"/">> \o b

JpgExt == <<".", "j", "p", "g">>
ExtractedFrameSuffix == <<"_", "e", "x", "t", "r", "a", "c", "t", "e", "d",
                          "F", "r", "a", "m", "e">> \o JpgExt

\* variant: the basename is cut at its last dot
DerivedOutputPathLastDot(p) ==
    LET b == basename(p)
        stem == IF LastIndex(b, ".") = 0 THEN b ELSE SubSeq(b, 1, LastIndex(b, ".") - 1)
    IN  join(dirname(p), stem \o ExtractedFrameSuffix)

\* lines 52-54: the output path derived from the input path
DerivedOutputPath(p) == join(dirname(p), SplitFirst(basename(p), ".") \o ExtractedFrameSuffix)

(***************************************************************************)
(* Timestamp arithmetic, lines 71-74.  A float is the rational t[1] / t[2] *)
(* with t[2] > 0.                                                          *)
(***************************************************************************)
\* line 71: frame / (num / den)
TimeOfFrame(f, rate) == <<f * rate[2], rate[1]>>

\* divmod(t, d)[0] as an integer
DivFloor(t, d) == t[1] \div (d * t[2])
\* divmod(t, d)[1], a float over the same denominator
ModFloat(t, d) == <<t[1] % (d * t[2]), t[2]>>

\* line 72: hours, rem = divmod(time_of_frame, 3600)
Hours(t) == DivFloor(t, 3600)
Rem(t) == ModFloat(t, 3600)
\* variant: the minutes are taken from the whole time, not from the remainder
MinutesOfTotal(t) == DivFloor(t, 60)

\* line 73: minutes, seconds = divmod(rem, 60)
Minutes(t) == DivFloor(Rem(t), 60)

Seconds(t) == ModFloat(Rem(t), 60)

\* the value x in hundredths, rounded as "%.2f" rounds; tieUp settles an exact tie
Hundredths(x, tieUp) ==
    LET c == (100 * x[1]) \div x[2]
        r == (100 * x[1]) % x[2]
    IN  IF 2 * r > x[2] THEN c + 1
        ELSE IF 2 * r < x[2] THEN c
        ELSE IF tieUp THEN c + 1 ELSE c

IsTie(x) == 2 * ((100 * x[1]) % x[2]) = x[2]

\* "{:05.2f}".format(x) for x >= 0
FormatSeconds(x, tieUp) ==
    LET h == Hundredths(x, tieUp)
    IN  PadLeft(NatToStr(h \div 100) \o <<".">> \o PadLeft(NatToStr(h % 100), 2, "0"), 5, "0")

\* line 74: "{:0>2}:{:0>2}:{:05.2f}".format(int(hours), int(minutes), seconds)
FormatTimestamp(h, m, sec, tieUp) ==
    PadLeft(IntToStr(h), 2, "0") \o <<":">>
    \o PadLeft(IntToStr(m), 2, "0") \o <<":">>
    \o FormatSeconds(sec, tieUp)

(***************************************************************************)
(* Inputs.                                                                 *)
(***************************************************************************)
ClipMov == <<"/", "a", "/", "b", "/", "c", "l", "i", "p", ".", "m", "o", "v">>
ClipV2Mov == <<"/", "a", "/", "b", "/", "c", "l", "i", "p", ".", "v", "2", ".", "m", "o", "v">>
RelativeMov == <<"c", ".", "m", "o", "v">>

PathChars == {"/", ".", "a"}
BoundedPaths == UNION {[1..k -> PathChars] : k \in 0..MaxPathLen}

OutJpg == <<"o">> \o JpgExt
OutPng == <<"o", ".", "p", "n", "g">>
OutShort == <<"j", "p", "g">>
\* values of -o / output_path: absent, valid, wrong extension, shorter than the extension
Outputs == {<<>>, OutJpg, OutPng, OutShort}

\* r_frame_rate as ffprobe prints it
RateText(n, d) == NatToStr(n) \o <<"/">> \o NatToStr(d)

VideoStream(n, d) == [codec_type |-> "video", r_frame_rate |-> RateText(n, d)]
AudioStream == [codec_type |-> "audio", r_frame_rate |-> RateText(0, 0)]

\* stream lists of the control inputs: none, audio only, video, audio then video,
\* two video streams, and video streams whose rate has a zero term
ControlMedia == {<<>>, <<AudioStream>>, <<VideoStream(24, 1)>>,
                 <<AudioStream, VideoStream(24, 1)>>,
                 <<VideoStream(25, 1), VideoStream(24, 1)>>,
                 <<VideoStream(0, 0)>>, <<VideoStream(0, 1)>>}

RealRates == {<<24, 1>>, <<25, 1>>, <<240, 1>>, <<1000, 1>>, <<30000, 1001>>}
Rates == ((1..MaxNum) \X (1..MaxDen)) \cup RealRates
FrameIndices == (0..MaxFrame) \cup {-1, 240, 14399, 59996, 90000}

NoProcess == [state |-> "none", code |-> 0, stdout |-> "none"]

Exists(files, p) == \E c \in {"original", "frame"} : <<p, c>> \in files

InitWith(paths, outputs, frames, medias) ==
    /\ entry \in {"main", "call"}
    /\ video_path \in paths
    /\ frame \in frames
    /\ media \in medias
    /\ \E o \in outputs, ow \in BOOLEAN, dt \in BOOLEAN :
          /\ IF entry = "main"
             THEN /\ args = [input |-> video_path, output |-> o, frame |-> frame,
                             overwrite |-> ow, doctest |-> dt]
                  /\ output_path = <<>>
                  /\ overwrite_existing_files = TRUE
                  /\ pc = "main_doctest"
             ELSE /\ args = [input |-> video_path, output |-> <<>>, frame |-> frame,
                             overwrite |-> FALSE, doctest |-> FALSE]
                  /\ dt = FALSE
                  /\ output_path = o
                  /\ overwrite_existing_files = ow
                  /\ pc = "fn_resolve"
          /\ LET target == IF o = <<>> THEN DerivedOutputPath(video_path) ELSE o
             IN  fs \in {{}, {<<target, "original">>}}
    /\ replaced = {}
    /\ probe = NoProcess
    /\ ffmpeg = NoProcess
    /\ spawned = <<>>
    /\ video_probe_result = [streams |-> <<>>]
    /\ video_frame_rate = <<>>
    /\ frame_rate = <<0, 0>>
    /\ time_of_frame = <<0, 1>>
    /\ hours = 0
    /\ minutes = 0
    /\ seconds = 0
    /\ time_to_seek = <<>>
    /\ ffmpeg_cmd = <<>>
    /\ checks = <<>>
    /\ error = "none"

\* every combination of flags, output argument and stream list on a few paths
InitControl == InitWith({ClipMov, ClipV2Mov, RelativeMov}, Outputs, {1}, ControlMedia)
\* every short input path
InitPaths == InitWith(BoundedPaths, {<<>>, OutJpg}, {1}, {<<VideoStream(24, 1)>>})
\* frame indices and frame rates
InitTimes == InitWith({ClipMov}, {<<>>}, FrameIndices,
                      {<<VideoStream(r[1], r[2])>> : r \in Rates})

Init == InitControl \/ InitPaths \/ InitTimes

(***************************************************************************)
(* Steps shared by the actions.                                            *)
(***************************************************************************)
\* an uncaught exception ends the program
Raise(e) == /\ error' = e
            /\ pc' = "exit"

\* main or the function returns normally and the program ends
Return == /\ pc' = "exit"
          /\ error' = error

TokFfmpeg == <<"f", "f", "m", "p", "e", "g">>
TokY == <<"-", "y">>
TokI == <<"-", "i">>
TokSs == <<"-", "s", "s">>
TokFrames == <<"-", "f", "r", "a", "m", "e", "s", ":", "v">>
TokOne == <<"1">>
TokPixFmt == <<"-", "p", "i", "x", "_", "f", "m", "t">>
TokYuvj420p == <<"y", "u", "v", "j", "4", "2", "0", "p">>

\* list.insert(i, x) with a 0-based index i <= len(list)
Insert(list, i, x) == SubSeq(list, 1, i) \o <<x>> \o SubSeq(list, i + 1, Len(list))

\* variant: -y is passed whatever the overwrite parameter
FfmpegCommandAlwaysY(vp, ts, out, overwrite) ==
    <<TokFfmpeg, TokY, TokI, vp, TokSs, ts, TokFrames, TokOne, TokPixFmt, TokYuvj420p, out>>

\* lines 76-79
FfmpegCommand(vp, ts, out, overwrite) ==
    LET cmd == <<TokFfmpeg, TokI, vp, TokSs, ts, TokFrames, TokOne, TokPixFmt, TokYuvj420p, out>>
    IN  IF overwrite THEN Insert(cmd, 1, TokY) ELSE cmd

\* variant: the streams are not filtered by codec type
VideoStreamsAny(streams) == streams

\* [s for s in streams if s['codec_type'] == 'video']
VideoStreams(streams) == SelectSeq(streams, LAMBDA s : s.codec_type = "video")

(***************************************************************************)
(* main, lines 82-111                                                      *)
(***************************************************************************)
\* lines 96-98: doctest.testmod() finds no doctest in the module and changes nothing
MainDoctest ==
    /\ pc = "main_doctest"
    /\ pc' = "main_ext"
    /\ checks' = IF args.doctest THEN Append(checks, "doctest") ELSE checks
    /\ UNCHANGED <<entry, args, video_path, frame, output_path, overwrite_existing_files,
                   media, fs, replaced, probe, ffmpeg, spawned, video_probe_result,
                   video_frame_rate, frame_rate, timeVars, ffmpeg_cmd, error>>

\* lines 100-101
MainCheckExtension ==
    /\ pc = "main_ext"
    /\ IF args.output # <<>> /\ ~EndsWith(args.output, JpgExt)
       THEN Raise("ValueError")
       ELSE pc' = "main_exists" /\ error' = error
    /\ checks' = Append(checks, "main_extension")
    /\ UNCHANGED <<entry, args, video_path, frame, output_path, overwrite_existing_files,
                   media, fs, replaced, probe, ffmpeg, spawned, video_probe_result,
                   video_frame_rate, frame_rate, timeVars, ffmpeg_cmd>>

\* lines 104-109
MainCheckExists ==
    /\ pc = "main_exists"
    /\ IF args.output # <<>> /\ Exists(fs, args.output) /\ ~args.overwrite
       THEN Return
       ELSE pc' = "main_call" /\ error' = error
    /\ checks' = Append(checks, "main_exists")
    /\ UNCHANGED <<entry, args, video_path, frame, output_path, overwrite_existing_files,
                   media, fs, replaced, probe, ffmpeg, spawned, video_probe_result,
                   video_frame_rate, frame_rate, timeVars, ffmpeg_cmd>>

\* line 111: three positional arguments; overwrite_existing_files takes its default (line 39)
MainCall ==
    /\ pc = "main_call"
    /\ video_path' = args.input
    /\ frame' = args.frame
    /\ output_path' = args.output
    /\ overwrite_existing_files' = TRUE
    /\ pc' = "fn_resolve"
    /\ UNCHANGED <<entry, args, media, fs, replaced, probe, ffmpeg, spawned,
                   video_probe_result, video_frame_rate, frame_rate, timeVars,
                   ffmpeg_cmd, checks, error>>

main == MainDoctest \/ MainCheckExtension \/ MainCheckExists \/ MainCall

(***************************************************************************)
(* get_ffprobe_result, lines 25-37                                         *)
(***************************************************************************)
\* line 36: check_output starts ffprobe, or raises when the executable is not found
SpawnProbe ==
    /\ pc = "probe_spawn"
    /\ \E found \in BOOLEAN :
          IF found
          THEN /\ probe' = [state |-> "running", code |-> 0, stdout |-> "none"]
               /\ spawned' = Append(spawned, "ffprobe")
               /\ pc' = "probe_wait"
               /\ error' = error
          ELSE /\ Raise("FileNotFoundError")
               /\ UNCHANGED <<probe, spawned>>
    /\ UNCHANGED <<entry, args, video_path, frame, output_path, overwrite_existing_files,
                   media, fs, replaced, ffmpeg, video_probe_result, video_frame_rate,
                   frame_rate, timeVars, ffmpeg_cmd, checks>>

\* variant: a failed probe is run once more
ProbeExitRetry ==
    /\ pc = "probe_wait"
    /\ probe.state = "running"
    /\ \E r \in {<<0, "json">>, <<0, "garbage">>, <<1, "none">>} :
          /\ probe' = [state |-> "exited", code |-> r[1], stdout |-> r[2]]
          /\ IF r[1] # 0
             THEN IF Len(spawned) < 2 THEN pc' = "probe_spawn" /\ error' = error
                  ELSE Raise("CalledProcessError")
             ELSE pc' = "probe_parse" /\ error' = error
    /\ UNCHANGED <<entry, args, video_path, frame, output_path, overwrite_existing_files,
                   media, fs, replaced, ffmpeg, spawned, video_probe_result,
                   video_frame_rate, frame_rate, timeVars, ffmpeg_cmd, checks>>

\* line 36: check_output blocks until ffprobe terminates; a non-zero status raises
ProbeExit ==
    /\ pc = "probe_wait"
    /\ probe.state = "running"
    /\ \E r \in {<<0, "json">>, <<0, "garbage">>, <<1, "none">>} :
          /\ probe' = [state |-> "exited", code |-> r[1], stdout |-> r[2]]
          /\ IF r[1] # 0 THEN Raise("CalledProcessError")
             ELSE pc' = "probe_parse" /\ error' = error
    /\ UNCHANGED <<entry, args, video_path, frame, output_path, overwrite_existing_files,
                   media, fs, replaced, ffmpeg, spawned, video_probe_result,
                   video_frame_rate, frame_rate, timeVars, ffmpeg_cmd, checks>>

\* line 37: json.loads
ParseProbe ==
    /\ pc = "probe_parse"
    /\ IF probe.stdout = "json"
       THEN /\ video_probe_result' = [streams |-> media]
            /\ pc' = "select"
            /\ error' = error
       ELSE /\ Raise("JSONDecodeError")
            /\ UNCHANGED video_probe_result
    /\ UNCHANGED <<entry, args, video_path, frame, output_path, overwrite_existing_files,
                   media, fs, replaced, probe, ffmpeg, spawned, video_frame_rate,
                   frame_rate, timeVars, ffmpeg_cmd, checks>>

get_ffprobe_result == SpawnProbe \/ ProbeExit \/ ParseProbe

(***************************************************************************)
(* extract_single_frame_from_video, lines 39-80                            *)
(***************************************************************************)
\* lines 51-54
ResolvedOutputPath(vp, out) == IF out = <<>> THEN DerivedOutputPath(vp) ELSE out

\* variant: the dot of the extension is not required
ExtensionOkNoDot(out) == EndsWith(out, <<"j", "p", "g">>)

\* line 56
ExtensionOk(out) == EndsWith(out, JpgExt)

\* variant: no early return
SkipExistingNever(files, out, overwrite) == FALSE

\* lines 60-65: the early return
SkipExisting(files, out, overwrite) == Exists(files, out) /\ ~overwrite

\* line 69: float(text.split('/')[0]) / float(text.split('/')[1])
ParseRate(text) == <<ParseNat(SplitFirst(text, "/")), ParseNat(SplitSecond(text, "/"))>>

ResolveOutputPath ==
    /\ pc = "fn_resolve"
    /\ output_path' = ResolvedOutputPath(video_path, output_path)
    /\ pc' = "fn_ext"
    /\ checks' = Append(checks, IF output_path = <<>> THEN "derive" ELSE "explicit")
    /\ UNCHANGED <<entry, args, video_path, frame, overwrite_existing_files, media, fs,
                   replaced, probe, ffmpeg, spawned, video_probe_result, video_frame_rate,
                   frame_rate, timeVars, ffmpeg_cmd, error>>

\* lines 56-57
CheckExtension ==
    /\ pc = "fn_ext"
    /\ IF ExtensionOk(output_path)
       THEN pc' = "fn_exists" /\ error' = error
       ELSE Raise("ValueError")
    /\ checks' = Append(checks, "extension")
    /\ UNCHANGED <<entry, args, video_path, frame, output_path, overwrite_existing_files,
                   media, fs, replaced, probe, ffmpeg, spawned, video_probe_result,
                   video_frame_rate, frame_rate, timeVars, ffmpeg_cmd>>

\* lines 60-65
CheckExists ==
    /\ pc = "fn_exists"
    /\ IF SkipExisting(fs, output_path, overwrite_existing_files)
       THEN Return
       ELSE pc' = "probe_spawn" /\ error' = error
    /\ checks' = Append(checks, "exists")
    /\ UNCHANGED <<entry, args, video_path, frame, output_path, overwrite_existing_files,
                   media, fs, replaced, probe, ffmpeg, spawned, video_probe_result,
                   video_frame_rate, frame_rate, timeVars, ffmpeg_cmd>>

\* lines 68-69: the first video stream's r_frame_rate, and its quotient
SelectFrameRate ==
    /\ pc = "select"
    /\ LET video == VideoStreams(video_probe_result.streams)
       IN  IF video = <<>>
           THEN /\ Raise("IndexError")
                /\ UNCHANGED <<video_frame_rate, frame_rate>>
           ELSE /\ video_frame_rate' = video[1].r_frame_rate
                /\ IF ParseRate(video[1].r_frame_rate)[2] = 0
                   THEN /\ Raise("ZeroDivisionError")
                        /\ UNCHANGED frame_rate
                   ELSE /\ frame_rate' = ParseRate(video[1].r_frame_rate)
                        /\ pc' = "compute_time"
                        /\ error' = error
    /\ UNCHANGED <<entry, args, video_path, frame, output_path, overwrite_existing_files,
                   media, fs, replaced, probe, ffmpeg, spawned, video_probe_result,
                   timeVars, ffmpeg_cmd, checks>>

\* lines 71-74; frame / 0.0 raises
ComputeSeekTime ==
    /\ pc = "compute_time"
    /\ IF frame_rate[1] = 0
       THEN /\ Raise("ZeroDivisionError")
            /\ UNCHANGED <<timeVars>>
       ELSE LET t == TimeOfFrame(frame, frame_rate)
            IN  /\ time_of_frame' = t
                /\ hours' = Hours(t)
                /\ minutes' = Minutes(t)
                /\ seconds' = Seconds(t)[1]
                /\ \E tieUp \in (IF IsTie(Seconds(t)) THEN BOOLEAN ELSE {FALSE}) :
                      time_to_seek' = FormatTimestamp(Hours(t), Minutes(t), Seconds(t), tieUp)
                /\ pc' = "build_cmd"
                /\ error' = error
    /\ UNCHANGED <<entry, args, video_path, frame, output_path, overwrite_existing_files,
                   media, fs, replaced, probe, ffmpeg, spawned, video_probe_result,
                   video_frame_rate, frame_rate, ffmpeg_cmd, checks>>

\* lines 76-79
BuildCommand ==
    /\ pc = "build_cmd"
    /\ ffmpeg_cmd' = FfmpegCommand(video_path, time_to_seek, output_path,
                                   overwrite_existing_files)
    /\ pc' = "ffmpeg_spawn"
    /\ UNCHANGED <<entry, args, video_path, frame, output_path, overwrite_existing_files,
                   media, fs, replaced, probe, ffmpeg, spawned, video_probe_result,
                   video_frame_rate, frame_rate, timeVars, checks, error>>

\* line 80: subprocess.run starts ffmpeg, or raises when the executable is not found
SpawnFfmpeg ==
    /\ pc = "ffmpeg_spawn"
    /\ \E found \in BOOLEAN :
          IF found
          THEN /\ ffmpeg' = [state |-> "running", code |-> 0, stdout |-> "none"]
               /\ spawned' = Append(spawned, "ffmpeg")
               /\ pc' = "ffmpeg_wait"
               /\ error' = error
          ELSE /\ Raise("FileNotFoundError")
               /\ UNCHANGED <<ffmpeg, spawned>>
    /\ UNCHANGED <<entry, args, video_path, frame, output_path, overwrite_existing_files,
                   media, fs, replaced, probe, video_probe_result, video_frame_rate,
                   frame_rate, timeVars, ffmpeg_cmd, checks>>

\* what a terminating ffmpeg leaves behind: with status 0 it has written the last
\* argument, which it does over an existing file only when -y was passed
FfmpegWrites(files, cmd, code) ==
    LET out == cmd[Len(cmd)]
    IN  IF code = 0
        THEN (files \ {<<out, "original">>}) \cup {<<out, "frame">>}
        ELSE files

FfmpegMaySucceed(files, cmd) == cmd[2] = TokY \/ ~Exists(files, cmd[Len(cmd)])

\* line 80: subprocess.run blocks until ffmpeg terminates and returns whatever its
\* status; the function and the program then end
FfmpegExit ==
    /\ pc = "ffmpeg_wait"
    /\ ffmpeg.state = "running"
    /\ \E code \in {0, 1} :
          /\ code = 0 => FfmpegMaySucceed(fs, ffmpeg_cmd)
          /\ ffmpeg' = [state |-> "exited", code |-> code, stdout |-> "none"]
          /\ fs' = FfmpegWrites(fs, ffmpeg_cmd, code)
          /\ replaced' = IF code = 0 /\ Exists(fs, ffmpeg_cmd[Len(ffmpeg_cmd)])
                         THEN replaced \cup {ffmpeg_cmd[Len(ffmpeg_cmd)]} ELSE replaced
    /\ Return
    /\ UNCHANGED <<entry, args, video_path, frame, output_path, overwrite_existing_files,
                   media, probe, spawned, video_probe_result, video_frame_rate,
                   frame_rate, timeVars, ffmpeg_cmd, checks>>

extract_single_frame_from_video ==
    \/ ResolveOutputPath \/ CheckExtension \/ CheckExists
    \/ get_ffprobe_result
    \/ SelectFrameRate \/ ComputeSeekTime \/ BuildCommand \/ SpawnFfmpeg \/ FfmpegExit

Next == main \/ extract_single_frame_from_video

Spec == Init /\ [][Next]_vars

(***************************************************************************)
(* Properties.                                                             *)
(***************************************************************************)
Range(q) == {q[i] : i \in 1..Len(q)}
Count(q, x) == Cardinality({i \in 1..Len(q) : q[i] = x})

\* a file that was at p before the program started
PreExisting(p) == <<p, "original">> \in fs \/ p \in replaced
Resolved == "derive" \in Range(checks) \/ "explicit" \in Range(checks)
HasVideo(streams) == \E i \in 1..Len(streams) : streams[i].codec_type = "video"
NoProcessSpawned == spawned = <<>> /\ probe.state = "none" /\ ffmpeg.state = "none"
ProcessFailure == {"CalledProcessError", "FileNotFoundError"}

ClipExtracted == <<"/", "a", "/", "b", "/", "c", "l", "i", "p">> \o ExtractedFrameSuffix

\* C1: run from the command line without --overwrite, a file already at the output
\* path (given with -o, or derived from the input path) means ffmpeg is never invoked
\* and the file is left as it was.
C1_ExistingOutputKeptWithoutOverwriteFlag ==
    (/\ entry = "main"
     /\ ~args.overwrite
     /\ \/ args.output # <<>> /\ PreExisting(args.output)
        \/ "derive" \in Range(checks) /\ PreExisting(output_path))
    => /\ "ffmpeg" \notin Range(spawned)
       /\ replaced = {}

\* C2, as stated: with overwrite_existing_files false and a file at the resolved
\* output path, the function returns without an error and spawns no process.
C2_ExistingOutputReturnsNormally ==
    (/\ entry = "call"
     /\ ~overwrite_existing_files
     /\ Resolved
     /\ PreExisting(output_path))
    => /\ NoProcessSpawned
       /\ error = "none"
       /\ "exists" \in Range(checks) => pc = "exit"

\* C2, amended: with overwrite_existing_files false and a file at the resolved output
\* path, no process is spawned; the function returns without an error when that path
\* ends in .jpg, and raises ValueError when it does not.
C2_ExistingOutputSpawnsNothing ==
    (/\ entry = "call"
     /\ ~overwrite_existing_files
     /\ Resolved
     /\ PreExisting(output_path))
    => /\ NoProcessSpawned
       /\ replaced = {}
       /\ IF EndsWith(output_path, JpgExt)
          THEN /\ error = "none"
               /\ "exists" \in Range(checks) => pc = "exit"
          ELSE /\ error \in {"none", "ValueError"}
               /\ "extension" \in Range(checks) => pc = "exit" /\ error = "ValueError"

C2_Witness ==
    /\ entry = "call"
    /\ ~overwrite_existing_files
    /\ "exists" \in Range(checks)
    /\ <<output_path, "original">> \in fs
    /\ pc = "exit"
    /\ error = "none"
    /\ spawned = <<>>

\* the output path as the caller supplied it
SuppliedOutput == IF entry = "main" THEN args.output
                  ELSE IF "derive" \in Range(checks) THEN <<>> ELSE output_path

\* C3: a supplied, non-empty output path that does not end in .jpg makes the program
\* end with ValueError, through main and through the function, and no external
\* process has been spawned when it does.
C3_BadExtensionRaisesBeforeAnyProcess ==
    (SuppliedOutput # <<>> /\ ~EndsWith(SuppliedOutput, JpgExt))
    => /\ NoProcessSpawned
       /\ error \in {"none", "ValueError"}
       /\ pc = "exit" => error = "ValueError"
       /\ pc \in {"main_doctest", "main_ext", "fn_resolve", "fn_ext", "exit"}

C3_Witness ==
    /\ entry = "call"
    /\ overwrite_existing_files
    /\ output_path = OutPng
    /\ <<OutPng, "original">> \in fs
    /\ pc = "exit"
    /\ error = "ValueError"

\* C4: when ffmpeg exits with a non-zero status the program ends with a
\* ProcessFailure, never successfully.
C4_FailedExtractionIsAnError ==
    (ffmpeg.state = "exited" /\ ffmpeg.code # 0)
    => /\ pc = "exit"
       /\ error \in ProcessFailure

\* C5: a failing probe stage (ffprobe missing or exiting non-zero, output that is not
\* JSON, no video stream) ends the program at once with the matching error; no
\* timestamp is computed, ffmpeg is not invoked and ffprobe is not run again.
C5_ProbeFailurePropagates ==
    LET Stopped(e) == /\ pc = "exit"
                      /\ error = e
                      /\ time_to_seek = <<>>
                      /\ ffmpeg_cmd = <<>>
                      /\ ffmpeg.state = "none"
                      /\ Count(spawned, "ffprobe") <= 1
                      /\ "ffmpeg" \notin Range(spawned)
    IN  /\ (probe.state = "exited" /\ probe.code # 0) => Stopped("CalledProcessError")
        /\ (error = "FileNotFoundError" /\ probe.state = "none")
              => Stopped("FileNotFoundError") /\ spawned = <<>>
        /\ (probe.state = "exited" /\ probe.code = 0 /\ probe.stdout # "json"
            /\ pc # "probe_parse") => Stopped("JSONDecodeError")
        /\ (probe.state = "exited" /\ probe.code = 0 /\ probe.stdout = "json"
            /\ ~HasVideo(media) /\ pc \notin {"probe_parse", "select"})
              => Stopped("IndexError")

C5_Witness ==
    /\ media = <<AudioStream>>
    /\ probe.state = "exited"
    /\ pc = "exit"
    /\ error = "IndexError"

\* C6: the argument vector ffmpeg is run with is
\* ffmpeg [-y] -i <video_path> -ss <timestamp> -frames:v 1 -pix_fmt yuvj420p <output_path>,
\* with -y right after the tool name exactly when the overwrite parameter is true.
C6_FfmpegArgumentVector ==
    (ffmpeg.state # "none")
    => ffmpeg_cmd =
          IF overwrite_existing_files
          THEN <<TokFfmpeg, TokY, TokI, video_path, TokSs, time_to_seek, TokFrames,
                 TokOne, TokPixFmt, TokYuvj420p, output_path>>
          ELSE <<TokFfmpeg, TokI, video_path, TokSs, time_to_seek, TokFrames,
                 TokOne, TokPixFmt, TokYuvj420p, output_path>>

C6_Witness ==
    /\ ffmpeg.state = "exited"
    /\ ~overwrite_existing_files
    /\ Len(ffmpeg_cmd) = 10
    /\ TokY \notin Range(ffmpeg_cmd)

\* the part of b before its first dot
Stem(b) == CHOOSE x \in {SubSeq(b, 1, k) : k \in 0..Len(b)} :
              /\ "." \notin Range(x)
              /\ Len(x) = Len(b) \/ b[Len(x) + 1] = "."

\* C7: a derived output path is the file <basename of the input up to its first
\* dot>_extractedFrame.jpg in the directory of the input path; it ends in .jpg, so the
\* extension check does not raise; /a/b/clip.mov and /a/b/clip.v2.mov both give
\* /a/b/clip_extractedFrame.jpg.
C7_DerivedOutputPath ==
    ("derive" \in Range(checks))
    => /\ dirname(output_path) = dirname(video_path)
       /\ basename(output_path) = Stem(basename(video_path)) \o ExtractedFrameSuffix
       /\ EndsWith(output_path, JpgExt)
       /\ error # "ValueError"
       /\ video_path \in {ClipMov, ClipV2Mov} => output_path = ClipExtracted

C7_Witness ==
    /\ "extension" \in Range(checks)
    /\ "derive" \in Range(checks)
    /\ video_path = ClipV2Mov
    /\ output_path = ClipExtracted
    /\ pc = "fn_exists"

Ts10 == <<"0", "0", ":", "0", "0", ":", "1", "0", ".", "0", "0">>
Ts003 == <<"0", "0", ":", "0", "0", ":", "0", "0", ".", "0", "3">>

\* C8: for a frame index >= 1 and a frame rate num/den with num, den > 0, the hours,
\* minutes and seconds computed for the timestamp add up to frame * den / num seconds;
\* frame 240 at 24/1 is formatted 00:00:10.00 and frame 1 at 30000/1001 00:00:00.03.
C8_DecompositionAddsUp ==
    (time_to_seek # <<>> /\ frame >= 1)
    => \A r \in Rates :
          media = <<VideoStream(r[1], r[2])>>
          => /\ (3600 * hours + 60 * minutes) * r[1] + seconds = frame * r[2]
             /\ (frame = 240 /\ r = <<24, 1>>) => time_to_seek = Ts10
             /\ (frame = 1 /\ r = <<30000, 1001>>) => time_to_seek = Ts003

C8_Witness ==
    /\ frame = 90000
    /\ media = <<VideoStream(24, 1)>>
    /\ hours = 1
    /\ minutes = 2
    /\ time_to_seek # <<>>

\* C9: at most one ffprobe and one ffmpeg process are spawned, never both running;
\* the extension and existence checks precede ffprobe; ffmpeg is spawned only after
\* ffprobe has exited with status 0 and the first video stream's frame rate has been
\* read from its output; nothing is spawned after ffmpeg returns.
C9_SequentialProcesses ==
    /\ Count(spawned, "ffprobe") <= 1
    /\ Count(spawned, "ffmpeg") <= 1
    /\ ~(probe.state = "running" /\ ffmpeg.state = "running")
    /\ "ffprobe" \in Range(spawned)
          => /\ "extension" \in Range(checks)
             /\ "exists" \in Range(checks)
    /\ "ffmpeg" \in Range(spawned)
          => /\ spawned = <<"ffprobe", "ffmpeg">>
             /\ probe.state = "exited"
             /\ probe.code = 0
             /\ probe.stdout = "json"
             /\ HasVideo(media)
             /\ \E i \in 1..Len(media) :
                   /\ media[i].codec_type = "video"
                   /\ \A j \in 1..(i - 1) : media[j].codec_type # "video"
                   /\ video_frame_rate = media[i].r_frame_rate
    /\ ffmpeg.state = "exited" => pc = "exit"
    /\ pc = "exit" => probe.state # "running" /\ ffmpeg.state # "running"

C9_Witness ==
    /\ spawned = <<"ffprobe", "ffmpeg">>
    /\ media = <<AudioStream, VideoStream(24, 1)>>
    /\ ffmpeg.state = "exited"
    /\ pc = "exit"

IsDigit(c) == c \in Range(Digits)

\* HH:MM:SS.ss with at least two hour digits, minutes 00..59 and seconds 00.00..59.99
WellFormedTimestamp(ts) ==
    LET n == Len(ts)
    IN  /\ n >= 11
        /\ \A i \in 1..(n - 9) : IsDigit(ts[i])
        /\ ts[n - 8] = ":"
        /\ IsDigit(ts[n - 7]) /\ IsDigit(ts[n - 6])
        /\ ParseNat(SubSeq(ts, n - 7, n - 6)) <= 59
        /\ ts[n - 5] = ":"
        /\ IsDigit(ts[n - 4]) /\ IsDigit(ts[n - 3])
        /\ ParseNat(SubSeq(ts, n - 4, n - 3)) <= 59
        /\ ts[n - 2] = "."
        /\ IsDigit(ts[n - 1]) /\ IsDigit(ts[n])

\* C10: for a frame index >= 0 and a frame rate num/den with num, den > 0 the seek
\* timestamp is a well-formed HH:MM:SS.ss value; its seconds field is never 60.00.
C10_TimestampWellFormed ==
    (time_to_seek # <<>> /\ frame >= 0) => WellFormedTimestamp(time_to_seek)

====
